---- MODULE Spec2Model ----
(***************************************************************************)
(* StepsForm (packages/form/src/layouts/StepsForm/index.tsx): the step     *)
(* registry, the step cursor, the form data aggregator and the final       *)
(* submission pipeline of the multi-step form wizard.                      *)
(***************************************************************************)
EXTENDS Integers, Sequences, FiniteSets, TLC

\* ---------------------------------------------------------------- bounds
MaxLen == 2          \* cap on Len(formArray)
MaxPending == 2      \* cap on outstanding onFinish invocations

Names == {"a", "b"}               \* step names (StepFormProps.name)
Titles == {"t1", "t2"}            \* per-step configuration (StepFormProps)
FormValues == { [k \in {"x"} |-> 1], [k \in {"x", "y"} |-> 2] }
Triggers == {"button", "onSubmit", "programmatic"}
Outcomes == {"truthy", "falsy", "reject"}

VARIABLES
  children,     \* props.children: declared, currently mounted StepForm names
  formArray,    \* useState<string[]>: ordered list of registered step names
  formMap,      \* formMapRef: name -> StepFormProps
  formData,     \* formDataRef: insertion-ordered Map name -> values
  dirty,        \* forms (formArrayRef) whose fields hold entered values
  step,         \* merged state: the step cursor
  loading,      \* useState<boolean>: the submitting flag
  pending,      \* number of onFinish promises not yet settled
  controlled,   \* props.current is supplied by the host
  hasOnFinish,  \* props.onFinish is supplied by the host
  lastOp        \* history: the operation that produced this state

vars == <<children, formArray, formMap, formData, dirty, step, loading,
          pending, controlled, hasOnFinish, lastOp>>

\* ------------------------------------------------------- data structures
EmptyMap == [n \in {} |-> 0]

MapSet(m, k, v) == [n \in (DOMAIN m) \cup {k} |-> IF n = k THEN v ELSE m[n]]

MapDelete(m, k) == [n \in (DOMAIN m) \ {k} |-> m[n]]

Range(s) == { s[i] : i \in DOMAIN s }

\* formDataRef: a JS Map keeps keys in order of first insertion
DataKeys(d) == { d[i].name : i \in DOMAIN d }

\* mutant: an existing entry is not overwritten
DataSetKeepsFirst(d, name, values) ==
  IF name \in DataKeys(d) THEN d
  ELSE Append(d, [name |-> name, values |-> values])

DataSet(d, name, values) ==
  IF name \in DataKeys(d)
    THEN [i \in DOMAIN d |-> IF d[i].name = name
                               THEN [name |-> name, values |-> values]
                               ELSE d[i]]
    ELSE Append(d, [name |-> name, values |-> values])

\* mutant: the whole Map is cleared instead of one key
DataDeleteAll(d, name) == <<>>

DataDelete(d, name) == SelectSeq(d, LAMBDA e : e.name # name)

\* mutant: the values are spread in reverse insertion order
DataValuesReversed(d) == [i \in DOMAIN d |-> d[Len(d) + 1 - i].values]

DataValues(d) == [i \in DOMAIN d |-> d[i].values]

\* merge(...) of @ant-design/pro-utils: later argument wins on a key
RECURSIVE merge(_, _)
merge(obj, rest) ==
  IF rest = <<>> THEN obj
  ELSE LET o == Head(rest)
       IN merge([k \in (DOMAIN obj) \cup (DOMAIN o) |->
                   IF k \in DOMAIN o THEN o[k] ELSE obj[k]], Tail(rest))

\* ---------------------------------------------------------- derived state
lastStep == step = Len(formArray) - 1

\* mutant: the setter applies the value although props.current is supplied
setStepAlways(v) == v

\* useMergedState: the setter applies the value only when uncontrolled
setStep(v) == IF controlled THEN step ELSE v

\* formDom: whether the child at declared index is the shown one
isShow(index) == step = index

\* mutant: the submitter override goes to the children that are not shown
stepConfigInverted(index) ==
  IF isShow(index) THEN EmptyMap ELSE [k \in {"submitter"} |-> FALSE]

\* formDom: the config the wizard passes to the child at declared index
\* (contentRender left out); submitter: false removes its own buttons
stepConfig(index) ==
  IF isShow(index) THEN [k \in {"submitter"} |-> FALSE] ELSE EmptyMap

\* formDom: one rendered element per child, in declared order
rendered ==
  [i \in DOMAIN children |->
     [name |-> children[i], active |-> isShow(i - 1), config |-> stepConfig(i - 1)]]

\* getActionButton(): the buttons rendered for the current cursor
getActionButton ==
  IF step < 1 THEN <<"next">>
  ELSE IF step + 1 = Len(formArray) THEN <<"pre", "submit">>
  ELSE <<"pre", "next">>

\* no change notification was emitted
NoChange == -1

\* useMergedState: the setter calls onChange(v) when v differs from the
\* current merged value; the result is the index notified to the host
onCurrentChange(v) == IF v # step THEN v ELSE NoChange

\* ----------------------------------------------------------- registry ops
\* regForm(name, props) applied to the pair <<formArray, formMap>>
regForm(fa, fm, name, cfg) ==
  << IF name \notin DOMAIN fm THEN Append(fa, name) ELSE fa,
     MapSet(fm, name, cfg) >>

\* formDom: regForm is called for every child, in declared order
RECURSIVE formDom(_, _, _, _)
formDom(fa, fm, kids, cfgs) ==
  IF kids = <<>> THEN <<fa, fm>>
  ELSE LET r == regForm(fa, fm, Head(kids), cfgs[Head(kids)])
       IN formDom(r[1], r[2], Tail(kids), cfgs)

\* the setFormArray updater of unRegForm
unRegFilter(fa, name) == SelectSeq(fa, LAMBDA n : n = name)

InsertAt(s, i, e) == SubSeq(s, 1, i) \o <<e>> \o SubSeq(s, i + 1, Len(s))

\* ------------------------------------------------------------------- Init
Init ==
  /\ children = <<>>
  /\ formArray = <<>>
  /\ formMap = EmptyMap
  /\ formData = <<>>
  /\ dirty = {}
  /\ step = 0
  /\ loading = FALSE
  /\ pending = 0
  /\ controlled \in BOOLEAN
  /\ hasOnFinish \in BOOLEAN
  /\ lastOp = [op |-> "init"]

\* ---------------------------------------------------------------- actions
\* the host adds a StepForm child at position pos; the render registers it
Mount(name, pos, cfg) ==
  /\ name \notin Range(children)
  /\ pos \in 0..Len(children)
  /\ Len(formArray) < MaxLen
  /\ LET kids == InsertAt(children, pos, name)
         r == formDom(formArray, formMap, kids, MapSet(formMap, name, cfg))
     IN /\ children' = kids
        /\ formArray' = r[1]
        /\ formMap' = r[2]
  /\ lastOp' = [op |-> "mount"]
  /\ UNCHANGED <<formData, dirty, step, loading, pending, controlled, hasOnFinish>>

\* the host changes the props of a mounted child; the render re-registers it
UpdateProps(name, cfg) ==
  /\ name \in Range(children)
  /\ formMap[name] # cfg
  /\ LET r == formDom(formArray, formMap, children, MapSet(formMap, name, cfg))
     IN /\ formArray' = r[1]
        /\ formMap' = r[2]
  /\ lastOp' = [op |-> "update"]
  /\ UNCHANGED <<children, formData, dirty, step, loading, pending, controlled, hasOnFinish>>

\* the host removes a child: its StepForm unmounts and calls unRegForm(name)
Unmount(name) ==
  /\ name \in Range(children)
  /\ children' = SelectSeq(children, LAMBDA n : n # name)
  /\ formArray' = unRegFilter(formArray, name)
  /\ formMap' = MapDelete(formMap, name)
  /\ formData' = DataDelete(formData, name)
  /\ dirty' = dirty \ {name}
  /\ lastOp' = [op |-> "unmount", purged |-> name \in DataKeys(formData)]
  /\ UNCHANGED <<step, loading, pending, controlled, hasOnFinish>>

\* the value the shared button / submitter.onSubmit submits: formArrayRef[step]
ActiveForm == IF step < Len(children) THEN {children[step + 1]} ELSE {}

\* who may report a finish: Button (loading blocks the click), the onSubmit
\* handed to submitter.render, or form.submit() through formRef / formMapRef
CanTrigger(trigger, name) ==
  CASE trigger = "button" -> ~loading /\ name \in ActiveForm
    [] trigger = "onSubmit" -> name \in ActiveForm
    [] OTHER -> name \in Range(children)

\* onFormFinish(name, formData) up to `await onFinish(values)`
onFormFinish(trigger, name, values) ==
  /\ CanTrigger(trigger, name)
  /\ LET data == DataSet(formData, name, values)
     IN /\ formData' = data
        /\ dirty' = dirty \cup {name}
        /\ IF ~lastStep \/ ~hasOnFinish
             THEN /\ lastOp' = [op |-> "finish", invoked |-> FALSE,
                                name |-> name, data |-> values]
                  /\ UNCHANGED <<loading, pending>>
             ELSE /\ pending < MaxPending
                  /\ loading' = TRUE
                  /\ pending' = pending + 1
                  /\ lastOp' = [op |-> "finish", invoked |-> TRUE,
                                name |-> name, data |-> values,
                                values |-> merge(EmptyMap, DataValues(data))]
  /\ UNCHANGED <<children, formArray, formMap, step, controlled, hasOnFinish>>

\* mutant: a truthy result is ignored, nothing is reset
SettleNoReset(outcome) ==
  /\ pending > 0
  /\ pending' = pending - 1
  /\ loading' = FALSE
  /\ lastOp' = [op |-> "settle", outcome |-> outcome,
                logged |-> outcome = "reject", uncaught |-> FALSE,
                notify |-> NoChange]
  /\ UNCHANGED <<children, formArray, formMap, formData, dirty, step,
                 controlled, hasOnFinish>>

\* mutant: the reset runs in the finally block, whatever the outcome
SettleResetsAlways(outcome) ==
  /\ pending > 0
  /\ pending' = pending - 1
  /\ step' = setStep(0)
  /\ dirty' = {}
  /\ loading' = FALSE
  /\ lastOp' = [op |-> "settle", outcome |-> outcome,
                logged |-> outcome = "reject", uncaught |-> FALSE,
                notify |-> onCurrentChange(0)]
  /\ UNCHANGED <<children, formArray, formMap, formData, controlled, hasOnFinish>>

\* the continuation of onFormFinish after `await onFinish(values)`
Settle(outcome) ==
  /\ pending > 0
  /\ pending' = pending - 1
  /\ step' = IF outcome = "truthy" THEN setStep(0) ELSE step
  /\ dirty' = IF outcome = "truthy" THEN {} ELSE dirty
  /\ loading' = FALSE
  /\ lastOp' = [op |-> "settle", outcome |-> outcome,
                logged |-> outcome = "reject", uncaught |-> FALSE,
                notify |-> IF outcome = "truthy" THEN onCurrentChange(0)
                                                 ELSE NoChange]
  /\ UNCHANGED <<children, formArray, formMap, formData, controlled, hasOnFinish>>

\* mutant: the boundary test is off by one
prePageOffByOne ==
  /\ step' = IF step < 2 THEN step ELSE setStep(step - 1)
  /\ lastOp' = [op |-> "prev",
                notify |-> IF step < 2 THEN NoChange ELSE onCurrentChange(step - 1)]
  /\ UNCHANGED <<children, formArray, formMap, formData, dirty, loading,
                 pending, controlled, hasOnFinish>>

\* mutant: going back forgets the data of the step that is left
prePageDropsData ==
  /\ step' = IF step < 1 THEN step ELSE setStep(step - 1)
  /\ formData' = IF step < Len(formArray) THEN DataDelete(formData, formArray[step + 1])
                                           ELSE formData
  /\ lastOp' = [op |-> "prev",
                notify |-> IF step < 1 THEN NoChange ELSE onCurrentChange(step - 1)]
  /\ UNCHANGED <<children, formArray, formMap, dirty, loading,
                 pending, controlled, hasOnFinish>>

prePage ==
  /\ step' = IF step < 1 THEN step ELSE setStep(step - 1)
  /\ lastOp' = [op |-> "prev",
                notify |-> IF step < 1 THEN NoChange ELSE onCurrentChange(step - 1)]
  /\ UNCHANGED <<children, formArray, formMap, formData, dirty, loading,
                 pending, controlled, hasOnFinish>>

\* mutant: the boundary test is off by one
nextPageOffByOne ==
  /\ step' = IF step > Len(formArray) - 1 THEN step ELSE setStep(step + 1)
  /\ lastOp' = [op |-> "next",
                notify |-> IF step > Len(formArray) - 1
                             THEN NoChange ELSE onCurrentChange(step + 1)]
  /\ UNCHANGED <<children, formArray, formMap, formData, dirty, loading,
                 pending, controlled, hasOnFinish>>

nextPage ==
  /\ step' = IF step > Len(formArray) - 2 THEN step ELSE setStep(step + 1)
  /\ lastOp' = [op |-> "next",
                notify |-> IF step > Len(formArray) - 2
                             THEN NoChange ELSE onCurrentChange(step + 1)]
  /\ UNCHANGED <<children, formArray, formMap, formData, dirty, loading,
                 pending, controlled, hasOnFinish>>

\* controlled mode: the host supplies a new props.current
SetCurrent(v) ==
  /\ controlled
  /\ v # step
  /\ step' = v
  /\ lastOp' = [op |-> "current"]
  /\ UNCHANGED <<children, formArray, formMap, formData, dirty, loading,
                 pending, controlled, hasOnFinish>>

Next ==
  \/ \E n \in Names, p \in 0..MaxLen, c \in Titles : Mount(n, p, c)
  \/ \E n \in Names, c \in Titles : UpdateProps(n, c)
  \/ \E n \in Names : Unmount(n)
  \/ \E t \in Triggers, n \in Names, v \in FormValues : onFormFinish(t, n, v)
  \/ \E o \in Outcomes : Settle(o)
  \/ prePage
  \/ nextPage
  \/ \E v \in 0..(MaxLen - 1) : SetCurrent(v)

Spec == Init /\ [][Next]_vars

TypeOK ==
  /\ formArray \in Seq(Names) /\ Len(formArray) <= MaxLen
  /\ DOMAIN formMap = Range(children)
  /\ DataKeys(formData) \subseteq Range(children)
  /\ step \in 0..MaxLen
  /\ pending \in 0..MaxPending

\* ------------------------------------------------------ helpers of claims
NoDup(s) == \A i, j \in DOMAIN s : s[i] = s[j] => i = j

Pos(d, name) == CHOOSE i \in DOMAIN d : d[i].name = name

Entry(d, name) == d[Pos(d, name)].values

\* the position of name in the ordered list of registered names
RegPos(name) == CHOOSE i \in DOMAIN formArray : formArray[i] = name

Unmounted(n) == n \in Range(children) /\ n \notin Range(children')

Mounted(n) == n \notin Range(children) /\ n \in Range(children')

SettledWith(o) == lastOp.op = "settle" /\ lastOp.outcome = o

Invoked == lastOp.op = "finish" /\ lastOp.invoked

\* ----------------------------------------------------------------- claims
\* C1: in uncontrolled mode the cursor is always a valid index into the
\* ordered list of registered step names, or 0 when the list is empty.
C1_CursorValid ==
  ~controlled =>
    IF formArray = <<>> THEN step = 0 ELSE step \in 0..(Len(formArray) - 1)

\* C2: at most one onFinish invocation is outstanding at any time.
C2_SingleOutstanding == pending <= 1

\* C3: after the final handler signalled success the aggregated data is
\* empty.
C3_DataClearedOnSuccess == SettledWith("truthy") => formData = <<>>

\* C4: when the final handler signals success, in uncontrolled mode the
\* cursor is reset to 0 and the fields of every sub-form are reset; when it
\* returns a falsy result the cursor is not reset.
C4_ResetOnSuccess ==
  [][ lastOp'.op = "settle" =>
        /\ (lastOp'.outcome = "truthy" /\ ~controlled) =>
              (step' = 0 /\ dirty' = {})
        /\ lastOp'.outcome = "falsy" => step' = step ]_vars

C4_Witness ==
  /\ SettledWith("truthy") /\ ~controlled
  /\ Len(formArray) = 2 /\ NoDup(formArray)
  /\ step = 0 /\ dirty = {} /\ Len(formData) = 2

\* C5: when the final handler returns a falsy result, rejects or throws, the
\* cursor and every entry of the aggregated data are left as they were, and
\* the error is logged instead of escaping onFormFinish.
C5_FailureKeepsState ==
  [][ (lastOp'.op = "settle" /\ lastOp'.outcome # "truthy") =>
        /\ step' = step
        /\ formData' = formData
        /\ ~lastOp'.uncaught
        /\ (lastOp'.outcome = "reject" => lastOp'.logged) ]_vars

C5_Witness ==
  /\ SettledWith("reject")
  /\ Len(formArray) = 2 /\ NoDup(formArray) /\ lastStep
  /\ Len(formData) = 2 /\ pending = 0

\* C6: whenever the invoked handler settles the submitting flag becomes
\* false, and the flag is true from the invocation until that settlement,
\* i.e. as long as an invocation is outstanding.
C6_SubmittingUntilSettled ==
  [][ /\ lastOp'.op = "settle" => ~loading'
      /\ pending' > 0 => loading' ]_vars

\* C7 (as stated): the record passed to the final handler has every field of
\* every step's data, and on a key collision the step registered later wins.
C7_LaterRegisteredWins ==
  (Invoked /\ formArray = children) =>
     /\ DOMAIN lastOp.values = UNION { DOMAIN formData[i].values : i \in DOMAIN formData }
     /\ \A k \in DOMAIN lastOp.values :
          \E n \in DataKeys(formData) :
            /\ k \in DOMAIN Entry(formData, n)
            /\ lastOp.values[k] = Entry(formData, n)[k]
            /\ \A m \in DataKeys(formData) :
                 k \in DOMAIN Entry(formData, m) => RegPos(m) <= RegPos(n)

\* C7 (amended): the record passed to the final handler has every field of
\* every entry of the aggregated data, and on a key collision the entry that
\* was inserted into the aggregated data later wins (the step that first
\* reported later since it was last deregistered).
C7_LaterInsertedWins ==
  Invoked =>
     /\ DOMAIN lastOp.values = UNION { DOMAIN formData[i].values : i \in DOMAIN formData }
     /\ \A k \in DOMAIN lastOp.values :
          \E i \in DOMAIN formData :
            /\ k \in DOMAIN formData[i].values
            /\ lastOp.values[k] = formData[i].values[k]
            /\ \A j \in DOMAIN formData :
                 k \in DOMAIN formData[j].values => j <= i

\* two steps collide on a key, and the one registered later reported first
C7_Witness ==
  /\ Invoked
  /\ formArray = children /\ Len(formArray) = 2 /\ Len(formData) = 2
  /\ RegPos(formData[1].name) > RegPos(formData[2].name)
  /\ formData[1].values["x"] # formData[2].values["x"]
  /\ lastOp.values["x"] = formData[2].values["x"]

\* C8: deregister(name) removes exactly that name from the ordered list of
\* registered names and keeps every other name in its relative order.
C8_DeregisterRemovesOnlyName ==
  [][ \A n \in Names :
        Unmounted(n) => formArray' = SelectSeq(formArray, LAMBDA m : m # n) ]_vars

\* C9: a render that registers names already in the list leaves their
\* positions and the step count unchanged, appending only the names that are
\* new and replacing only the config of the step whose props changed, and
\* the list never contains a name twice.
C9_RegisterIdempotent ==
  [][ /\ lastOp'.op \in {"mount", "update"} =>
           /\ SubSeq(formArray', 1, Len(formArray)) = formArray
           /\ Len(formArray') = Len(formArray)
                + Cardinality(Range(children') \ Range(formArray))
           /\ DOMAIN formMap' = Range(children')
           /\ lastOp'.op = "update" =>
                Cardinality({ n \in DOMAIN formMap : formMap'[n] # formMap[n] }) = 1
      /\ NoDup(formArray') ]_vars

\* C10: deregister(name) deletes the aggregated data of name and of no other
\* step, also while a submission is pending, and registering a name does not
\* bring back any data: a newly registered step has no entry.
C10_DeregisterPurgesOwnData ==
  [][ \A n \in Names :
        /\ Unmounted(n) =>
             /\ DataKeys(formData') = DataKeys(formData) \ {n}
             /\ Len(formData') = Cardinality(DataKeys(formData'))
             /\ \A m \in DataKeys(formData') :
                  /\ Entry(formData', m) = Entry(formData, m)
                  /\ \A l \in DataKeys(formData') :
                       (Pos(formData', l) < Pos(formData', m))
                          <=> (Pos(formData, l) < Pos(formData, m))
        /\ Mounted(n) =>
             /\ formData' = formData
             /\ n \notin DataKeys(formData') ]_vars

C10_Witness ==
  /\ lastOp.op = "unmount" /\ lastOp.purged
  /\ pending > 0
  /\ Len(formData) = 1

InRange == Len(formArray) >= 1 /\ step \in 0..(Len(formArray) - 1)

\* C11: from a cursor in range, nextPage and prePage keep the cursor within
\* [0, stepCount - 1] and change it by at most 1.
C11_NavStaysInRange ==
  [][ (lastOp'.op \in {"next", "prev"} /\ InRange) =>
        /\ step' \in 0..(Len(formArray') - 1)
        /\ step' - step \in {-1, 0, 1} ]_vars

C11_Witness ==
  /\ lastOp.op = "next" /\ ~controlled
  /\ formArray = children /\ Len(formArray) = 2 /\ step = 1

NavOrSettle == {"next", "prev", "settle"}

\* the index nextPage, prePage or a settlement asks setStep for, if any
Requested ==
  CASE lastOp'.op = "next" -> IF step > Len(formArray) - 2 THEN NoChange ELSE step + 1
    [] lastOp'.op = "prev" -> IF step < 1 THEN NoChange ELSE step - 1
    [] lastOp'.op = "settle" -> IF lastOp'.outcome = "truthy" /\ step # 0 THEN 0 ELSE NoChange
    [] OTHER -> NoChange

\* C12: in controlled mode nextPage, prePage and a successful submission
\* never change the cursor, they only notify the requested index, and the
\* cursor changes only when the host sets it; in uncontrolled mode the
\* change is applied and notified once per actual change.
C12_ControlledOnlyRequests ==
  [][ /\ (controlled /\ step' # step) => lastOp'.op = "current"
      /\ (controlled /\ lastOp'.op \in NavOrSettle) =>
            (step' = step /\ lastOp'.notify = Requested)
      /\ (~controlled /\ lastOp'.op \in NavOrSettle) =>
            /\ lastOp'.notify = Requested
            /\ IF step' # step THEN lastOp'.notify = step'
                               ELSE lastOp'.notify = NoChange ]_vars

C12_Witness ==
  /\ controlled /\ SettledWith("truthy")
  /\ lastOp.notify = 0 /\ step = 1 /\ Len(formArray) = 2

\* C13: for every stepCount >= 1 and in-range cursor the buttons are: only
\* next on the first step, previous + submit on the last step, previous +
\* next in between; submit is among the buttons whenever the cursor is on
\* the last step.
C13_ButtonsByPosition ==
  InRange =>
    /\ lastStep => "submit" \in Range(getActionButton)
    /\ (step = 0 /\ ~lastStep) => getActionButton = <<"next">>
    /\ (step > 0 /\ lastStep) => getActionButton = <<"pre", "submit">>
    /\ (step > 0 /\ ~lastStep) => getActionButton = <<"pre", "next">>

\* C14: onFormFinish(name, data) always stores data under name, overwriting
\* the previous entry and leaving the other entries alone; when the cursor is
\* not on the last step or no onFinish is configured it does nothing else:
\* cursor, submitting flag and outstanding invocations are unchanged.
C14_FinishOnlyStores ==
  [][ lastOp'.op = "finish" =>
        /\ DataKeys(formData') = DataKeys(formData) \cup {lastOp'.name}
        /\ Len(formData') = Cardinality(DataKeys(formData'))
        /\ Entry(formData', lastOp'.name) = lastOp'.data
        /\ \A m \in DataKeys(formData) \ {lastOp'.name} :
             Entry(formData', m) = Entry(formData, m)
        /\ (~lastStep \/ ~hasOnFinish) =>
             /\ ~lastOp'.invoked
             /\ step' = step /\ loading' = loading /\ pending' = pending ]_vars

C14_Witness ==
  /\ lastOp.op = "finish" /\ ~lastOp.invoked
  /\ hasOnFinish /\ ~lastStep /\ formArray = children
  /\ Len(formData) = 2 /\ Entry(formData, lastOp.name) = lastOp.data

\* C15: after any sequence of mounts and unmounts the ordered list of
\* registered names equals the declared order of the mounted children.
C15_ListMatchesChildren == formArray = children

\* C16: nextPage at the last step and prePage at index 0 change nothing and
\* notify nothing; away from the boundary they move the cursor by exactly 1
\* (uncontrolled) and notify the new index.
C16_BoundaryNoOps ==
  [][ /\ (lastOp'.op = "next" /\ InRange) =>
           IF lastStep
             THEN step' = step /\ lastOp'.notify = NoChange
             ELSE /\ ~controlled => step' = step + 1
                  /\ lastOp'.notify = step + 1
      /\ lastOp'.op = "prev" =>
           IF step = 0
             THEN step' = step /\ lastOp'.notify = NoChange
             ELSE /\ ~controlled => step' = step - 1
                  /\ lastOp'.notify = step - 1 ]_vars

C16_Witness ==
  /\ lastOp.op = "next" /\ lastOp.notify = NoChange
  /\ formArray = children /\ Len(formArray) = 2 /\ lastStep

\* C17: nextPage and prePage leave the aggregated data unchanged, and an
\* entry is removed or changed only when its step finishes again, is
\* deregistered, or a final submission succeeds.
C17_NavKeepsData ==
  [][ /\ lastOp'.op \in {"next", "prev"} => formData' = formData
      /\ \A n \in DataKeys(formData) :
           (n \notin DataKeys(formData') \/ Entry(formData', n) # Entry(formData, n)) =>
              \/ lastOp'.op = "finish" /\ lastOp'.name = n
              \/ Unmounted(n)
              \/ lastOp'.op = "settle" /\ lastOp'.outcome = "truthy" ]_vars

C17_Witness ==
  /\ lastOp.op = "prev" /\ lastOp.notify = 0 /\ step = 0 /\ ~controlled
  /\ Len(formData) = 2

SubmitDisabled(index) ==
  /\ "submitter" \in DOMAIN stepConfig(index)
  /\ stepConfig(index)["submitter"] = FALSE

ChildIndexes == 0..(Len(children) - 1)

C19_FlagIffOutstanding == loading <=> pending > 0
====
